---- MODULE Spec2Model ----
(***************************************************************************)
(* Cash-flow rebalancing calculator: the Portfolio class and the exact-    *)
(* fraction rebalancer (isBalanced, rebalance, rebalancePortfolio) of      *)
(* src/src/classes/Portfolio.js.                                            *)
(*                                                                         *)
(* A Fraction is a pair <<n, d>> in lowest terms with d > 0.  A JavaScript *)
(* object used as a map is a record [keys, val]: keys is the insertion     *)
(* order that Object.entries / for-in follow, val the value of each key.   *)
(***************************************************************************)
EXTENDS Integers, Sequences, FiniteSets, TLC

\* Longest run of periods one call of rebalancePortfolio is followed for.
MaxPeriods == 3

----------------------------------------------------------------------------
(* fraction.js: exact rational arithmetic *)

RECURSIVE Gcd(_, _)
Gcd(a, b) == IF b = 0 THEN a ELSE Gcd(b, a % b)

AbsInt(n) == IF n < 0 THEN -n ELSE n

Fraction(n, d) ==
    LET g == Gcd(AbsInt(n), d)
    IN  IF n = 0 THEN <<0, 1>> ELSE <<n \div g, d \div g>>

Zero == <<0, 1>>
One == <<1, 1>>

add(x, y) ==
    LET g == Gcd(x[2], y[2])
    IN  Fraction(x[1] * (y[2] \div g) + y[1] * (x[2] \div g), (x[2] \div g) * y[2])

sub(x, y) == add(x, <<-y[1], y[2]>>)

mul(x, y) ==
    LET g1 == Gcd(AbsInt(x[1]), y[2])
        g2 == Gcd(AbsInt(y[1]), x[2])
    IN  IF x[1] = 0 \/ y[1] = 0 THEN Zero
        ELSE Fraction((x[1] \div g1) * (y[1] \div g2), (x[2] \div g2) * (y[2] \div g1))

\* x.div(y) for y # 0; a zero divisor throws DivisionByZero, which the
\* callers of div model (getPortfolioAllocation).
div(x, y) ==
    IF y[1] < 0 THEN mul(x, <<-y[2], -y[1]>>) ELSE mul(x, <<y[2], y[1]>>)

abs(x) == <<AbsInt(x[1]), x[2]>>

\* x.compare(y): negative, zero or positive as x < y, x = y, x > y
compare(x, y) ==
    LET g == Gcd(x[2], y[2])
        l == x[1] * (y[2] \div g)
        r == y[1] * (x[2] \div g)
    IN  IF l < r THEN -1 ELSE IF l > r THEN 1 ELSE 0

----------------------------------------------------------------------------
(* JavaScript objects used as maps *)

EmptyObject == [keys |-> <<>>, val |-> <<>>]

Range(s) == {s[i] : i \in 1..Len(s)}

Has(o, k) == k \in Range(o.keys)

\* o[k] = v for a key the object already has: the key keeps its position
Assign(o, k, v) == [o EXCEPT !.val[k] = v]

RECURSIVE SumSeq(_, _)
SumSeq(o, i) ==
    IF i > Len(o.keys) THEN Zero ELSE add(o.val[o.keys[i]], SumSeq(o, i + 1))

----------------------------------------------------------------------------
(* class Portfolio *)

\* #calculatePortfolioValue over the map object the portfolio refers to
calculatePortfolioValue(assets) == SumSeq(assets, 1)

\* new Portfolio(assets) and the assets setter: keep the reference to the
\* map object that was passed, and compute the value from it
Portfolio(ref, assets) == [assets |-> ref, value |-> calculatePortfolioValue(assets)]

NoPortfolio == [assets |-> 0, value |-> Zero]

\* getPortfolioAllocation with a guard on the total alone: it fails on a
\* zero #value even when there is no asset to divide
getPortfolioAllocationGuarded(assets, value) ==
    IF value = Zero
    THEN [throws |-> TRUE, percentages |-> EmptyObject]
    ELSE [throws |-> FALSE,
          percentages |-> [keys |-> assets.keys,
                           val |-> [k \in Range(assets.keys) |-> div(assets.val[k], value)]]]

\* getPortfolioAllocation: every held amount divided by the stored #value,
\* in insertion order; the first division by a zero #value throws
getPortfolioAllocation(assets, value) ==
    IF assets.keys # <<>> /\ value = Zero
    THEN [throws |-> TRUE, percentages |-> EmptyObject]
    ELSE [throws |-> FALSE,
          percentages |-> [keys |-> assets.keys,
                           val |-> [k \in Range(assets.keys) |-> div(assets.val[k], value)]]]

----------------------------------------------------------------------------
(* isBalanced *)

Tolerance == <<1, 20>>

\* isBalanced answering after the first asset it looks at
isBalancedFirstOnly(percentages, target, i) ==
    IF i > Len(percentages.keys) THEN "true"
    ELSE LET asset == percentages.keys[i]
         IN  IF ~Has(target, asset) THEN "TypeError"
             ELSE IF compare(abs(sub(target.val[asset], percentages.val[asset])),
                             Tolerance) > 0
                  THEN "false"
                  ELSE "true"

RECURSIVE isBalancedFrom(_, _, _)
isBalancedFrom(percentages, target, i) ==
    IF i > Len(percentages.keys) THEN "true"
    ELSE LET asset == percentages.keys[i]
         IN  IF ~Has(target, asset) THEN "TypeError"
             ELSE IF compare(abs(sub(target.val[asset], percentages.val[asset])),
                             Tolerance) > 0
                  THEN "false"
                  ELSE isBalancedFrom(percentages, target, i + 1)

\* "true", "false", or the name of the error it throws
isBalanced(assets, value, target) ==
    LET alloc == getPortfolioAllocation(assets, value)
    IN  IF alloc.throws THEN "DivisionByZero"
        ELSE isBalancedFrom(alloc.percentages, target, 1)

----------------------------------------------------------------------------
(* rebalance: one period *)

\* a classification that lists an asset as under-target only when its gap
\* is beyond the tolerance of isBalanced
RECURSIVE classifyBeyondTolerance(_, _, _, _)
classifyBeyondTolerance(percentages, target, over, i) ==
    IF i > Len(percentages.keys) THEN <<>>
    ELSE LET assetName == percentages.keys[i]
             targetDifference == sub(target.val[assetName], percentages.val[assetName])
             rest == classifyBeyondTolerance(percentages, target, over, i + 1)
         IN  IF over /\ compare(targetDifference, Zero) < 0
             THEN <<[assetName |-> assetName, value |-> abs(targetDifference)]>> \o rest
             ELSE IF ~over /\ compare(targetDifference, Tolerance) > 0
                  THEN <<[assetName |-> assetName, value |-> targetDifference]>> \o rest
                  ELSE rest

\* the forEach over Object.entries(portfolioAllocation): the entries pushed
\* to overTargetAssets (over = TRUE) or belowTargetAssets (over = FALSE)
RECURSIVE classify(_, _, _, _)
classify(percentages, target, over, i) ==
    IF i > Len(percentages.keys) THEN <<>>
    ELSE LET assetName == percentages.keys[i]
             targetDifference == sub(target.val[assetName], percentages.val[assetName])
             rest == classify(percentages, target, over, i + 1)
         IN  IF over /\ compare(targetDifference, Zero) < 0
             THEN <<[assetName |-> assetName, value |-> abs(targetDifference)]>> \o rest
             ELSE IF ~over /\ compare(targetDifference, Zero) > 0
                  THEN <<[assetName |-> assetName, value |-> targetDifference]>> \o rest
                  ELSE rest

\* a sort that puts an entry before the earlier entries of the same value
RECURSIVE insertSortedTiesLast(_, _)
insertSortedTiesLast(sorted, x) ==
    IF sorted = <<>> THEN <<x>>
    ELSE IF compare(Head(sorted).value, x.value) > 0
         THEN <<Head(sorted)>> \o insertSortedTiesLast(Tail(sorted), x)
         ELSE <<x>> \o sorted

\* Array.prototype.sort with (currentAsset, nextAsset) =>
\* nextAsset.value.compare(currentAsset.value): descending by value, stable
RECURSIVE insertSorted(_, _)
insertSorted(sorted, x) ==
    IF sorted = <<>> THEN <<x>>
    ELSE IF compare(Head(sorted).value, x.value) >= 0
         THEN <<Head(sorted)>> \o insertSorted(Tail(sorted), x)
         ELSE <<x>> \o sorted

RECURSIVE sortByValue(_)
sortByValue(list) ==
    IF list = <<>> THEN <<>>
    ELSE insertSorted(sortByValue(SubSeq(list, 1, Len(list) - 1)), list[Len(list)])

\* the reduce without the clamp at zero
RECURSIVE reduceOverTargetUnclamped(_, _, _, _)
reduceOverTargetUnclamped(overTargetAssets, target, acc, i) ==
    IF i > Len(overTargetAssets) THEN acc
    ELSE LET assetName == overTargetAssets[i].assetName
             value == overTargetAssets[i].value
             difference == sub(target.val[assetName], value)
         IN  reduceOverTargetUnclamped(overTargetAssets, target,
                 [currentBalance |-> add(acc.currentBalance, value),
                  newAssetAllocation |-> Assign(acc.newAssetAllocation, assetName, difference)],
                 i + 1)

\* the reduce freeing the whole gap of a clamped asset, not its target only
RECURSIVE reduceOverTargetLeaky(_, _, _, _)
reduceOverTargetLeaky(overTargetAssets, target, acc, i) ==
    IF i > Len(overTargetAssets) THEN acc
    ELSE LET assetName == overTargetAssets[i].assetName
             value == overTargetAssets[i].value
             difference == sub(target.val[assetName], value)
         IN  reduceOverTargetLeaky(overTargetAssets, target,
                 [currentBalance |-> add(acc.currentBalance, value),
                  newAssetAllocation |->
                      Assign(acc.newAssetAllocation, assetName,
                             IF compare(difference, Zero) < 0 THEN Zero ELSE difference)],
                 i + 1)

\* the reduce of the lines left commented out in the source: every
\* over-target asset gets 0 and frees its whole target
RECURSIVE reduceOverTargetZeroing(_, _, _, _)
reduceOverTargetZeroing(overTargetAssets, target, acc, i) ==
    IF i > Len(overTargetAssets) THEN acc
    ELSE LET assetName == overTargetAssets[i].assetName
         IN  reduceOverTargetZeroing(overTargetAssets, target,
                 [currentBalance |-> add(acc.currentBalance, target.val[assetName]),
                  newAssetAllocation |-> Assign(acc.newAssetAllocation, assetName, Zero)],
                 i + 1)

\* the reduce over overTargetAssets: the freed amount (currentBalance) and
\* the entries written to newAssetAllocation
RECURSIVE reduceOverTarget(_, _, _, _)
reduceOverTarget(overTargetAssets, target, acc, i) ==
    IF i > Len(overTargetAssets) THEN acc
    ELSE LET assetName == overTargetAssets[i].assetName
             value == overTargetAssets[i].value
             difference == sub(target.val[assetName], value)
         IN  IF compare(difference, Zero) < 0
             THEN reduceOverTarget(overTargetAssets, target,
                      [currentBalance |-> add(acc.currentBalance, target.val[assetName]),
                       newAssetAllocation |-> Assign(acc.newAssetAllocation, assetName, Zero)],
                      i + 1)
             ELSE reduceOverTarget(overTargetAssets, target,
                      [currentBalance |-> add(acc.currentBalance, value),
                       newAssetAllocation |-> Assign(acc.newAssetAllocation, assetName, difference)],
                      i + 1)

\* the forEach over Object.entries(newAssetAllocation): fills
\* currentMonthInvestment and adds each amount to the holdings map in
\* place; reading a key the holdings map lacks throws and leaves the
\* earlier keys already updated
RECURSIVE investFrom(_, _, _, _)
investFrom(newAssetAllocation, montly, acc, i) ==
    IF i > Len(newAssetAllocation.keys) THEN acc
    ELSE LET assetName == newAssetAllocation.keys[i]
             amount == mul(montly, newAssetAllocation.val[assetName])
         IN  IF ~Has(acc.portfolioAssets, assetName)
             THEN [acc EXCEPT !.throws = TRUE]
             ELSE investFrom(newAssetAllocation, montly,
                      [throws |-> FALSE,
                       currentMonthInvestment |->
                           [keys |-> Append(acc.currentMonthInvestment.keys, assetName),
                            val |-> (assetName :> amount) @@ acc.currentMonthInvestment.val],
                       portfolioAssets |->
                           Assign(acc.portfolioAssets, assetName,
                                  add(acc.portfolioAssets.val[assetName], amount))],
                      i + 1)

\* The body of rebalance after the base case, for an unbalanced portfolio:
\* what it throws (if anything), the adjusted allocation, the instruction
\* and the holdings map as the body leaves it.
period(assets, value, target, montly) ==
    LET percentages == getPortfolioAllocation(assets, value).percentages
        unchanged == [error |-> "TypeError", newAssetAllocation |-> EmptyObject,
                      currentMonthInvestment |-> EmptyObject, portfolioAssets |-> assets]
    IN  IF \E k \in Range(percentages.keys) : ~Has(target, k) THEN unchanged
        ELSE
        LET belowTargetAssets == sortByValue(classify(percentages, target, FALSE, 1))
            overTargetAssets == sortByValue(classify(percentages, target, TRUE, 1))
            reduced == reduceOverTarget(overTargetAssets, target,
                           [currentBalance |-> Zero, newAssetAllocation |-> target], 1)
        IN  IF belowTargetAssets = <<>> THEN unchanged
            ELSE
            LET first == belowTargetAssets[1].assetName
                newAssetAllocation ==
                    Assign(reduced.newAssetAllocation, first,
                           add(target.val[first], reduced.currentBalance))
                invested == investFrom(newAssetAllocation, montly,
                                [throws |-> FALSE, currentMonthInvestment |-> EmptyObject,
                                 portfolioAssets |-> assets], 1)
            IN  [error |-> IF invested.throws THEN "TypeError" ELSE "",
                 newAssetAllocation |-> newAssetAllocation,
                 currentMonthInvestment |-> invested.currentMonthInvestment,
                 portfolioAssets |-> invested.portfolioAssets]

----------------------------------------------------------------------------
(* The caller: one Portfolio, its holdings installed by the constructor or *)
(* the assets setter, and calls of rebalancePortfolio on it.               *)

Amounts == {<<0, 1>>, <<10, 1>>, <<50, 1>>, <<90, 1>>}

Fractions == {<<0, 1>>, <<1, 4>>, <<1, 2>>, <<3, 4>>, <<1, 1>>}

Contributions == {<<0, 1>>, <<100, 1>>}

HoldingKeys == {<<>>, <<"A">>, <<"A", "B">>, <<"A", "B", "C">>, <<"C", "B", "A">>}

TargetKeys == {<<"A">>, <<"A", "B">>, <<"A", "B", "C">>}

Objects(keys, values) == {[keys |-> keys, val |-> f] : f \in [Range(keys) -> values]}

HoldingsInputs == UNION {Objects(keys, Amounts) : keys \in HoldingKeys}

\* the maps the caller installs with the setter: those of at most two assets
SetterInputs == {h \in HoldingsInputs : Len(h.keys) <= 2}

\* target allocations whose fractions sum to at most 1
TargetInputs ==
    {t \in UNION {Objects(keys, Fractions) : keys \in TargetKeys} :
        compare(SumSeq(t, 1), One) <= 0}

VARIABLES
    heap,                \* the map objects, by reference
    portfolio,           \* the caller's Portfolio: #assets (a reference), #value
    portfolioCopy,       \* the Portfolio rebalancePortfolio creates
    targetAllocation,    \* argument of the running call
    montlyContribution,  \* argument of the running call
    montlyInvestments,   \* the instructions pushed so far
    newAssetAllocation,  \* the adjusted allocation of the last period
    status,              \* "idle", "running", "returned" or "failed"
    error,               \* what a failed call threw
    initial,             \* the caller's holdings when the call was made
    before               \* the working holdings when the last period began

vars == <<heap, portfolio, portfolioCopy, targetAllocation, montlyContribution,
          montlyInvestments, newAssetAllocation, status, error, initial, before>>

NoCall ==
    /\ portfolioCopy = NoPortfolio
    /\ targetAllocation = EmptyObject
    /\ montlyContribution = Zero
    /\ montlyInvestments = <<>>
    /\ newAssetAllocation = EmptyObject
    /\ status = "idle"
    /\ error = ""
    /\ initial = EmptyObject
    /\ before = EmptyObject

\* const portfolio = new Portfolio(assets)
Init ==
    /\ \E assets \in HoldingsInputs :
          /\ heap = (1 :> assets)
          /\ portfolio = Portfolio(1, assets)
    /\ NoCall

\* portfolio.assets = newAssets, by the caller between calls
SetAssets ==
    /\ status # "running"
    /\ \E newAssets \in SetterInputs :
          /\ heap' = (1 :> newAssets)
          /\ portfolio' = Portfolio(1, newAssets)
    /\ portfolioCopy' = NoPortfolio
    /\ targetAllocation' = EmptyObject
    /\ montlyContribution' = Zero
    /\ montlyInvestments' = <<>>
    /\ newAssetAllocation' = EmptyObject
    /\ status' = "idle"
    /\ error' = ""
    /\ initial' = EmptyObject
    /\ before' = EmptyObject

\* rebalancePortfolio(portfolio, targetAllocation, montlyContribution) up to
\* the first call of rebalance
rebalancePortfolio ==
    /\ status = "idle"
    /\ \E target \in TargetInputs, montly \in Contributions :
          /\ targetAllocation' = target
          /\ montlyContribution' = montly
    /\ portfolioCopy' = Portfolio(portfolio.assets, heap[portfolio.assets])
    /\ initial' = heap[portfolio.assets]
    /\ status' = "running"
    /\ UNCHANGED <<heap, portfolio, montlyInvestments, newAssetAllocation, error, before>>

\* one invocation of rebalance(currentPortfolio, ...): the base case, or one
\* period followed by the recursive call
rebalance ==
    /\ status = "running"
    /\ LET assets == heap[portfolioCopy.assets]
           balanced == isBalanced(assets, portfolioCopy.value, targetAllocation)
       IN  IF balanced = "true"
           THEN /\ status' = "returned"
                /\ UNCHANGED <<heap, portfolioCopy, montlyInvestments,
                               newAssetAllocation, error, before>>
           ELSE IF balanced # "false"
           THEN /\ status' = "failed"
                /\ error' = balanced
                /\ UNCHANGED <<heap, portfolioCopy, montlyInvestments,
                               newAssetAllocation, before>>
           ELSE /\ Len(montlyInvestments) < MaxPeriods
                /\ LET p == period(assets, portfolioCopy.value, targetAllocation,
                                   montlyContribution)
                   IN  /\ heap' = [heap EXCEPT ![portfolioCopy.assets] = p.portfolioAssets]
                       /\ before' = assets
                       /\ newAssetAllocation' = p.newAssetAllocation
                       /\ IF p.error # ""
                          THEN /\ status' = "failed"
                               /\ error' = p.error
                               /\ UNCHANGED <<portfolioCopy, montlyInvestments>>
                          ELSE /\ portfolioCopy' =
                                      Portfolio(portfolioCopy.assets, p.portfolioAssets)
                               /\ montlyInvestments' =
                                      Append(montlyInvestments, p.currentMonthInvestment)
                               /\ UNCHANGED <<status, error>>
    /\ UNCHANGED <<portfolio, targetAllocation, montlyContribution, initial>>

Next == SetAssets \/ rebalancePortfolio \/ rebalance

Spec == Init /\ [][Next]_vars

----------------------------------------------------------------------------
(* Vocabulary of the properties, stated from the holdings themselves *)

Total(o) == SumSeq(o, 1)

SameKeys(a, b) == Range(a.keys) = Range(b.keys)

CallMade == status # "idle"

Ended == status \in {"returned", "failed"}

CallerHoldings == heap[portfolio.assets]

WorkingHoldings == heap[portfolioCopy.assets]

Periods == Len(montlyInvestments)

\* the last period ran to its end and pushed its instruction
PeriodDone == Periods > 0 /\ error = ""

LastInstruction == montlyInvestments[Periods]

\* positive total, same keys, fractions summing to 1, positive contribution
ValidCall ==
    /\ CallMade
    /\ compare(Total(initial), Zero) > 0
    /\ SameKeys(initial, targetAllocation)
    /\ Total(targetAllocation) = One
    /\ compare(montlyContribution, Zero) > 0

\* gap = target fraction - current fraction of asset k in holdings h
Gap(h, k) == sub(targetAllocation.val[k], div(h.val[k], Total(h)))

\* the balance predicate on holdings h
WithinTolerance(h) ==
    \A k \in Range(h.keys) : compare(abs(Gap(h, k)), Tolerance) <= 0

\* holdings h after the first n instructions were added to it
RECURSIVE Applied(_, _)
Applied(h, n) ==
    IF n = 0 THEN h
    ELSE LET prev == Applied(h, n - 1)
         IN  [keys |-> h.keys,
              val |-> [k \in Range(h.keys) |->
                          add(prev.val[k], montlyInvestments[n].val[k])]]

MinF(x, y) == IF compare(x, y) <= 0 THEN x ELSE y

MaxF(x, y) == IF compare(x, y) >= 0 THEN x ELSE y

IsOver(h, k) == compare(Gap(h, k), Zero) < 0

IsUnder(h, k) == compare(Gap(h, k), Zero) > 0

\* sum over the over-target assets of min(|gap|, target)
RECURSIVE FreedFrom(_, _)
FreedFrom(h, i) ==
    IF i > Len(h.keys) THEN Zero
    ELSE LET k == h.keys[i]
         IN  add(IF IsOver(h, k)
                 THEN MinF(abs(Gap(h, k)), targetAllocation.val[k]) ELSE Zero,
                 FreedFrom(h, i + 1))

Freed(h) == FreedFrom(h, 1)

\* the under-target asset with the largest gap, the first in insertion
\* order among those tied on it
IsRecipient(h, k) ==
    \E i \in 1..Len(h.keys) :
        /\ h.keys[i] = k
        /\ IsUnder(h, k)
        /\ \A j \in 1..Len(h.keys) : compare(Gap(h, h.keys[j]), Gap(h, k)) <= 0
        /\ \A j \in 1..(i - 1) : Gap(h, h.keys[j]) # Gap(h, k)

AdjustedTarget(h, k) ==
    IF IsOver(h, k) THEN MaxF(Zero, sub(targetAllocation.val[k], abs(Gap(h, k))))
    ELSE IF IsRecipient(h, k) THEN add(targetAllocation.val[k], Freed(h))
    ELSE targetAllocation.val[k]

----------------------------------------------------------------------------
(* Properties *)

\* C1 Non-mutation: once a call of rebalancePortfolio has ended, by
\* returning or by throwing, the caller's Portfolio holds exactly the
\* per-asset values it held when the call was made.
NonMutation == Ended => CallerHoldings = initial

\* C2 Convergence: for a positive total, a target with the same keys that
\* sums to 1 and a positive contribution, when the call returns, the
\* initial holdings plus all the instructions in order satisfy the balance
\* predicate, and the initial holdings plus all but the last do not.
Convergence ==
    (status = "returned" /\ ValidCall) =>
        /\ WithinTolerance(Applied(initial, Periods))
        /\ Periods > 0 => ~WithinTolerance(Applied(initial, Periods - 1))

ConvergenceWitness == status = "returned" /\ ValidCall /\ Periods >= 2

\* C3 Conservation: in every period the adjusted target allocation sums to
\* the same total as the target allocation, so the amounts of every
\* instruction sum to contribution x (sum of the target fractions): to the
\* contribution exactly for a target allocation that sums to 1.
Conservation ==
    /\ \A i \in 1..Periods :
          /\ Total(montlyInvestments[i]) =
                 mul(montlyContribution, Total(targetAllocation))
          /\ Total(targetAllocation) = One =>
                 Total(montlyInvestments[i]) = montlyContribution
    /\ newAssetAllocation # EmptyObject =>
          Total(newAssetAllocation) = Total(targetAllocation)

ConservationWitness ==
    /\ PeriodDone
    /\ Total(targetAllocation) = One
    /\ compare(montlyContribution, Zero) > 0
    /\ Len(before.keys) = 3
    /\ \E k \in Range(before.keys) :
          /\ IsOver(before, k)
          /\ compare(abs(Gap(before, k)), targetAllocation.val[k]) > 0
    /\ \E k \in Range(before.keys) :
          /\ IsOver(before, k)
          /\ compare(abs(Gap(before, k)), targetAllocation.val[k]) < 0

\* C4 Non-negativity: no amount of any instruction is negative, and an
\* over-target asset whose gap magnitude exceeds its target fraction
\* receives exactly 0.
NonNegativity ==
    /\ \A i \in 1..Periods : \A k \in Range(montlyInvestments[i].keys) :
          compare(montlyInvestments[i].val[k], Zero) >= 0
    /\ PeriodDone =>
          \A k \in Range(before.keys) :
              (IsOver(before, k)
                  /\ compare(abs(Gap(before, k)), targetAllocation.val[k]) > 0)
              => LastInstruction.val[k] = Zero

NonNegativityWitness ==
    /\ PeriodDone
    /\ compare(montlyContribution, Zero) > 0
    /\ \E k \in Range(before.keys) :
          /\ IsOver(before, k)
          /\ compare(targetAllocation.val[k], Zero) > 0
          /\ compare(abs(Gap(before, k)), targetAllocation.val[k]) > 0

\* C5 Bounded termination: every call ends after a bounded number of
\* periods.  rebalance keeps no count of its periods, and what it does in a
\* period depends on the working holdings only, so a call can end only if
\* no period leaves the working holdings as it found them.
BoundedTermination ==
    (status = "running" /\ Periods > 0) => WorkingHoldings # before

\* C6 Key mismatch: when the keys of the target allocation and of the
\* portfolio differ, the call never returns a sequence, produces no
\* instruction and changes no holding.
KeyMismatchFails ==
    (CallMade /\ ~SameKeys(initial, targetAllocation)) =>
        /\ status # "returned"
        /\ montlyInvestments = <<>>
        /\ WorkingHoldings = initial
        /\ CallerHoldings = initial

ExampleCall ==
    /\ CallMade
    /\ initial = [keys |-> <<"A", "B">>,
                  val |-> ("A" :> <<90, 1>>) @@ ("B" :> <<10, 1>>)]
    /\ targetAllocation = [keys |-> <<"A", "B">>,
                           val |-> ("A" :> <<1, 2>>) @@ ("B" :> <<1, 2>>)]
    /\ montlyContribution = <<100, 1>>

OneOverOneUnder(h) ==
    /\ Cardinality({k \in Range(h.keys) : IsOver(h, k)}) = 1
    /\ Cardinality({k \in Range(h.keys) : IsUnder(h, k)}) = 1

\* C7 as the claim states it: in the example the first instruction gives 0
\* to A and 100 to B, leaving {A: 90, B: 110}; and with one over-target and
\* exactly one under-target asset the under-target asset receives the whole
\* contribution.
SoleRecipientClaimed ==
    /\ (ExampleCall /\ Periods >= 1) =>
          /\ montlyInvestments[1].val["A"] = Zero
          /\ montlyInvestments[1].val["B"] = <<100, 1>>
          /\ Applied(initial, 1).val = ("A" :> <<90, 1>>) @@ ("B" :> <<110, 1>>)
    /\ (PeriodDone /\ ValidCall /\ OneOverOneUnder(before)) =>
          \A k \in Range(before.keys) :
              IsUnder(before, k) => LastInstruction.val[k] = montlyContribution

\* C7 Sole-recipient example, amended: in the example the first instruction
\* gives 10 to A and 90 to B, leaving {A: 100, B: 100}; with one over-target
\* asset o and exactly one under-target asset u, u receives contribution x
\* (target(u) + min(|gap(o)|, target(o))) and o receives contribution x
\* max(0, target(o) - |gap(o)|).
SoleRecipient ==
    /\ (ExampleCall /\ Periods >= 1) =>
          /\ montlyInvestments[1].val["A"] = <<10, 1>>
          /\ montlyInvestments[1].val["B"] = <<90, 1>>
          /\ Applied(initial, 1).val = ("A" :> <<100, 1>>) @@ ("B" :> <<100, 1>>)
    /\ (PeriodDone /\ OneOverOneUnder(before)) =>
          \A u, o \in Range(before.keys) :
              (IsUnder(before, u) /\ IsOver(before, o)) =>
                  /\ LastInstruction.val[u] =
                         mul(montlyContribution,
                             add(targetAllocation.val[u],
                                 MinF(abs(Gap(before, o)), targetAllocation.val[o])))
                  /\ LastInstruction.val[o] =
                         mul(montlyContribution,
                             MaxF(Zero, sub(targetAllocation.val[o], abs(Gap(before, o)))))

SoleRecipientWitness == ExampleCall /\ Periods = 1 /\ status = "returned"

\* C8 Portfolio value invariant: the value of every Portfolio object equals
\* the sum of the amounts of the holdings map it returns.
PortfolioValueInvariant ==
    /\ portfolio.value = Total(CallerHoldings)
    /\ portfolioCopy # NoPortfolio => portfolioCopy.value = Total(WorkingHoldings)

GreedyStep ==
    PeriodDone =>
        \A k \in Range(before.keys) :
            /\ newAssetAllocation.val[k] = AdjustedTarget(before, k)
            /\ LastInstruction.val[k] =
                   mul(montlyContribution, AdjustedTarget(before, k))

GreedyStepWitness ==
    /\ PeriodDone
    /\ compare(montlyContribution, Zero) > 0
    /\ \E k1, k2, k3 \in Range(before.keys) :
          /\ k1 # k2
          /\ IsRecipient(before, k1)
          /\ Gap(before, k2) = Gap(before, k1)
          /\ IsOver(before, k3)

\* positive total, same keys, fractions summing to 1; any contribution
ValidPortfolioAndTarget ==
    /\ CallMade
    /\ compare(Total(initial), Zero) > 0
    /\ SameKeys(initial, targetAllocation)
    /\ Total(targetAllocation) = One

\* C11 Recipient always exists: for a positive total and a target with the
\* same keys that sums to 1, whenever the balance predicate is false on the
\* working holdings some asset is under-target, every period that began had
\* an under-target asset, and the call never fails.
RecipientExists ==
    ValidPortfolioAndTarget =>
        /\ status # "failed"
        /\ (status = "running" /\ ~WithinTolerance(WorkingHoldings)) =>
              \E k \in Range(WorkingHoldings.keys) : IsUnder(WorkingHoldings, k)
        /\ before # EmptyObject =>
              /\ ~WithinTolerance(before)
              /\ \E k \in Range(before.keys) : IsUnder(before, k)

RecipientExistsWitness ==
    /\ ValidPortfolioAndTarget
    /\ PeriodDone
    /\ Periods >= 2
    /\ Len(before.keys) = 3
    /\ Cardinality({k \in Range(before.keys) : IsUnder(before, k)}) = 1
    /\ Cardinality({k \in Range(before.keys) : IsOver(before, k)}) = 2

====
